---- MODULE Spec2Model ----
(***************************************************************************)
(* Model of ebook_secondbrain_pipeline/kindle_cleaner.py: the Kindle       *)
(* clippings parser (parse_kindle_annotations) with its helpers            *)
(* normalize_title, normalize_timestamp and page_sort_key.                 *)
(*                                                                         *)
(* Python str values are TLA+ strings; TLC evaluates Len, SubSeq, Head,    *)
(* Tail and \o on them character by character.  Python list indices are    *)
(* kept 0-based (i, j); lines[k] of the code is Line(k) here.              *)
(***************************************************************************)
EXTENDS Integers, Sequences, FiniteSets, TLC

(***************************************************************************)
(* Python values                                                           *)
(***************************************************************************)

\* Python's None for the optional page and timestamp.  A page is a run of
\* digits and dashes and a timestamp contains "-", so neither equals it.
None == "None"

\* U+FEFF, the byte order mark normalize_title removes.
BOM == "﻿"

\* The characters str.strip() and the regex class \s treat as white space
\* (those a TLA+ string can hold).
Whitespace == {" ", "\t", "\n", "\r", "\f"}

\* The characters of the regex class [\d\-] of PAGE_PATTERN.
Digits == {"0", "1", "2", "3", "4", "5", "6", "7", "8", "9"}

PageChars == Digits \cup {"-"}

\* The characters at which str.splitlines() breaks a line.
LineBoundaries == {"\n", "\r", "\f"}

META_PREFIX == "- Deine Markierung"

SEPARATOR == "=========="

(***************************************************************************)
(* Python str methods                                                      *)
(***************************************************************************)

\* The least element of a non-empty set of integers.
Min(S) == CHOOSE m \in S : \A n \in S : m <= n

\* The index after the longest run of characters of chars that starts at
\* 1-based index k of s.
span(s, k, chars) ==
    CHOOSE m \in k..(Len(s) + 1) :
        /\ \A n \in k..(m - 1) : SubSeq(s, n, n) \in chars
        /\ m = Len(s) + 1 \/ SubSeq(s, m, m) \notin chars

\* The index before the longest run of characters of chars that ends at
\* 1-based index k of s.
spanBack(s, k, chars) ==
    LET d == CHOOSE d \in 0..k :
                 /\ \A n \in (k - d + 1)..k : SubSeq(s, n, n) \in chars
                 /\ d = k \/ SubSeq(s, k - d, k - d) \notin chars
    IN  k - d

\* s.lstrip(chars): drop every leading character that is in chars.
lstrip(s, chars) == SubSeq(s, span(s, 1, chars), Len(s))

\* s.rstrip(chars): drop every trailing character that is in chars.
rstrip(s, chars) == SubSeq(s, 1, spanBack(s, Len(s), chars))

\* s.strip()
strip(s) == rstrip(lstrip(s, Whitespace), Whitespace)

\* s.startswith(prefix)
startswith(s, prefix) ==
    Len(s) >= Len(prefix) /\ SubSeq(s, 1, Len(prefix)) = prefix

\* The least 1-based index k >= from at which sub occurs in s, or 0.
find(s, sub, from) ==
    LET hits == {n \in from..(Len(s) - Len(sub) + 1) :
                    /\ SubSeq(s, n, n) = SubSeq(sub, 1, 1)
                    /\ SubSeq(s, n, n + Len(sub) - 1) = sub}
    IN  IF hits = {} THEN 0 ELSE Min(hits)

RECURSIVE split(_, _, _)
\* s.split(sep, maxsplit): the list of the parts of s between the first
\* maxsplit occurrences of sep (empty parts kept).
split(s, sep, maxsplit) ==
    LET k == find(s, sep, 1)
    IN  IF maxsplit = 0 \/ k = 0 THEN <<s>>
        ELSE <<SubSeq(s, 1, k - 1)>>
             \o split(SubSeq(s, k + Len(sep), Len(s)), sep, maxsplit - 1)

\* s.split(sep) without a limit: s has fewer than Len(s) + 1 separators.
splitAll(s, sep) == split(s, sep, Len(s) + 1)

RECURSIVE zeros(_)
zeros(n) == IF n <= 0 THEN "" ELSE "0" \o zeros(n - 1)

\* s.zfill(width): zeros on the left up to width, after a leading sign.
zfill(s, width) ==
    IF Len(s) >= width THEN s
    ELSE IF s # "" /\ Head(s) \in {"+", "-"}
         THEN Head(s) \o zeros(width - Len(s)) \o Tail(s)
         ELSE zeros(width - Len(s)) \o s

RECURSIVE join(_, _)
\* sep.join(parts)
join(sep, parts) ==
    IF parts = <<>> THEN ""
    ELSE IF Len(parts) = 1 THEN parts[1]
    ELSE parts[1] \o sep \o join(sep, Tail(parts))

\* The indices of text at which a line ends: a line boundary, "\r\n"
\* being one line end, at its "\n".
lineEnds(text) ==
    {n \in 1..Len(text) :
        /\ SubSeq(text, n, n) \in LineBoundaries
        /\ ~(/\ SubSeq(text, n, n) = "\r"
             /\ n < Len(text)
             /\ SubSeq(text, n + 1, n + 1) = "\n")}

\* text.splitlines(): the lines without their line ends; a line end at the
\* end of the text opens no further line.
splitlines(text) ==
    LET ends     == lineEnds(text)
        count    == Cardinality(ends)
        nth      == [m \in 1..count |->
                        CHOOSE e \in ends :
                            Cardinality({x \in ends : x <= e}) = m]
        start(m) == IF m = 1 THEN 1 ELSE nth[m - 1] + 1
        stop(m)  == IF /\ SubSeq(text, nth[m], nth[m]) = "\n"
                       /\ nth[m] > 1
                       /\ SubSeq(text, nth[m] - 1, nth[m] - 1) = "\r"
                    THEN nth[m] - 2
                    ELSE nth[m] - 1
        rest     == IF count = 0 THEN 1 ELSE nth[count] + 1
    IN  [m \in 1..count |-> SubSeq(text, start(m), stop(m))]
        \o (IF rest <= Len(text) THEN <<SubSeq(text, rest, Len(text))>>
            ELSE <<>>)

DigitValue ==
    ("0" :> 0) @@ ("1" :> 1) @@ ("2" :> 2) @@ ("3" :> 3) @@ ("4" :> 4) @@
    ("5" :> 5) @@ ("6" :> 6) @@ ("7" :> 7) @@ ("8" :> 8) @@ ("9" :> 9)

\* Whether int(s) succeeds for a string s of digits and dashes.
isInt(s) ==
    /\ s # ""
    /\ \A k \in 1..Len(s) : SubSeq(s, k, k) \in Digits

RECURSIVE int(_)
\* int(s) for a string of decimal digits.
int(s) ==
    IF s = "" THEN 0
    ELSE 10 * int(SubSeq(s, 1, Len(s) - 1)) + DigitValue[SubSeq(s, Len(s), Len(s))]

(***************************************************************************)
(* kindle_cleaner.py: the helpers                                          *)
(***************************************************************************)

\* normalize_title(title): leading byte order marks off, then white space.
normalize_title(title) == strip(lstrip(title, {BOM}))

\* The month table of normalize_timestamp.
months ==
    ("Januar" :> "01") @@ ("Februar" :> "02") @@ ("März" :> "03") @@
    ("April" :> "04") @@ ("Mai" :> "05") @@ ("Juni" :> "06") @@
    ("Juli" :> "07") @@ ("August" :> "08") @@ ("September" :> "09") @@
    ("Oktober" :> "10") @@ ("November" :> "11") @@ ("Dezember" :> "12")

\* A call's outcome: the value returned, or the exception raised.
Returned(v) == [exc |-> "", value |-> v]

Raised(e) == [exc |-> e, value |-> ""]

\* f"{year}-{months[month]}-{day.zfill(2)}T{time}"
isoformat(year, month, day, time) ==
    year \o "-" \o months[month] \o "-" \o zfill(day, 2) \o "T" \o time

\* normalize_timestamp with month "00" for a name that is not in the table.
normalize_timestamp_UnknownMonth(raw) ==
    LET parts == split(raw, ",", 1)
    IN  IF Len(parts) # 2 THEN Raised("ValueError")
        ELSE
        LET rest   == strip(parts[2])
            groups == split(rest, " ", 2)
        IN  IF Len(groups) # 3 THEN Raised("ValueError")
            ELSE
            LET day       == groups[1]
                month     == groups[2]
                year_time == split(groups[3], " ", 1)
            IN  IF Len(year_time) # 2 THEN Raised("ValueError")
                ELSE IF month \notin DOMAIN months
                THEN Returned(year_time[1] \o "-00-" \o zfill(day, 2) \o "T"
                              \o year_time[2])
                ELSE Returned(isoformat(year_time[1], month, day, year_time[2]))

\* normalize_timestamp taking the whole input when it has no comma.
normalize_timestamp_NoComma(raw) ==
    LET parts == split(raw, ",", 1)
        rest   == strip(parts[Len(parts)])
        groups == split(rest, " ", 2)
    IN  IF Len(groups) # 3 THEN Raised("ValueError")
        ELSE
        LET day       == groups[1]
            month     == groups[2]
            year_time == split(groups[3], " ", 1)
        IN  IF Len(year_time) # 2 THEN Raised("ValueError")
            ELSE IF month \notin DOMAIN months THEN Raised("KeyError")
            ELSE Returned(isoformat(year_time[1], month, day, year_time[2]))

\* normalize_timestamp(raw).  Unpacking a split that gave too few parts
\* raises ValueError, a month that is not in the table raises KeyError.
normalize_timestamp(raw) ==
    LET parts == split(raw, ",", 1)
    IN  IF Len(parts) # 2 THEN Raised("ValueError")
        ELSE
        LET rest   == strip(parts[2])
            groups == split(rest, " ", 2)
        IN  IF Len(groups) # 3 THEN Raised("ValueError")
            ELSE
            LET day       == groups[1]
                month     == groups[2]
                year_time == split(groups[3], " ", 1)
            IN  IF Len(year_time) # 2 THEN Raised("ValueError")
                ELSE IF month \notin DOMAIN months THEN Raised("KeyError")
                ELSE Returned(isoformat(year_time[1], month, day, year_time[2]))

\* float("inf") and the int keys of page_sort_key, with their order.
Inf == [inf |-> TRUE, n |-> 0]

IntKey(n) == [inf |-> FALSE, n |-> n]

\* a < b on sort keys
KeyLess(a, b) == ~a.inf /\ (b.inf \/ a.n < b.n)

\* page_sort_key with a missing page sorted first (key 0).
page_sort_key_MissingFirst(page) ==
    IF page = None \/ page = "" THEN IntKey(0)
    ELSE LET first == splitAll(page, "-")[1]
         IN  IF isInt(first) THEN IntKey(int(first)) ELSE IntKey(0)

\* page_sort_key(page)
page_sort_key(page) ==
    IF page = None \/ page = "" THEN Inf
    ELSE LET first == splitAll(page, "-")[1]
         IN  IF isInt(first) THEN IntKey(int(first)) ELSE Inf

RECURSIVE pageSearchFrom(_, _)
\* PAGE_PATTERN.search from index k on: the leftmost "Seite", white space
\* and a run of digits and dashes; group 1 is that run, taken greedily.
pageSearchFrom(meta, k) ==
    LET p == find(meta, "Seite", k)
    IN  IF p = 0 THEN None
        ELSE LET a == span(meta, p + 5, Whitespace)
                 b == span(meta, a, PageChars)
             IN  IF a > p + 5 /\ b > a THEN SubSeq(meta, a, b - 1)
                 ELSE pageSearchFrom(meta, p + 1)

\* PageOf with the empty string for a missing page.
PageOf_Empty(meta) ==
    IF pageSearchFrom(meta, 1) = None THEN "" ELSE pageSearchFrom(meta, 1)

\* page_match.group(1) if page_match else None
PageOf(meta) == pageSearchFrom(meta, 1)

TIMESTAMP_LITERAL == "Hinzugefügt am "

\* ts_match.group(1) if ts_match else None, for TIMESTAMP_PATTERN
\* "Hinzugefügt am (.+)$": the leftmost literal with at least one
\* character after it; group 1 runs to the end of the line.
RawTimestampOf(meta) ==
    LET p == find(meta, TIMESTAMP_LITERAL, 1)
    IN  IF p # 0 /\ p + Len(TIMESTAMP_LITERAL) <= Len(meta)
        THEN SubSeq(meta, p + Len(TIMESTAMP_LITERAL), Len(meta))
        ELSE None

\* IsNoise with only the separator test kept.
IsNoise_SeparatorOnly(line, title) == line = SEPARATOR

\* Lines 123..127: the lines of a body run that are skipped.
IsNoise(line, title) ==
    \/ line = SEPARATOR
    \/ line = title
    \/ startswith(line, META_PREFIX)

RECURSIVE insertByKey_BeforeEqual(_, _)
\* insertByKey with x put before the items of equal key: not stable.
insertByKey_BeforeEqual(sorted, x) ==
    IF sorted = <<>> THEN <<x>>
    ELSE IF ~KeyLess(page_sort_key(sorted[1].page), page_sort_key(x.page))
         THEN <<x>> \o sorted
         ELSE <<sorted[1]>> \o insertByKey_BeforeEqual(Tail(sorted), x)

RECURSIVE insertByKey(_, _)
\* x put into the sorted list after every item whose key is not greater.
insertByKey(sorted, x) ==
    IF sorted = <<>> THEN <<x>>
    ELSE IF KeyLess(page_sort_key(x.page), page_sort_key(sorted[1].page))
         THEN <<x>> \o sorted
         ELSE <<sorted[1]>> \o insertByKey(Tail(sorted), x)

RECURSIVE sortItems(_)
\* items.sort(key=lambda a: page_sort_key(a["page"])): ascending and stable.
sortItems(items) ==
    IF items = <<>> THEN <<>>
    ELSE insertByKey(sortItems(SubSeq(items, 1, Len(items) - 1)),
                     items[Len(items)])

(***************************************************************************)
(* The exports the parser is run on                                        *)
(***************************************************************************)

\* The number of chunks (records, stray lines) of an export.
MaxChunks == 2

DeepWork == "Deep Work"

Titles == {DeepWork, BOM \o DeepWork, "Dune"}

MetaFull ==
    "- Deine Markierung auf Seite 42 | Position 813-814 | Hinzugefügt am Donnerstag, 1. Januar 2025 09:00:00"

MetaRange ==
    "- Deine Markierung auf Seite 9-10 | Hinzugefügt am Montag, 3. März 2025 18:30:00"

MetaBare == "- Deine Markierung bei Position 77"

MetaDash == "- Deine Markierung auf Seite -3"

MetaBadMonth ==
    "- Deine Markierung auf Seite 5 | Hinzugefügt am Freitag, 2. May 2025 10:00:00"

MetaNoPage ==
    "- Deine Markierung bei Position 12 | Hinzugefügt am Dienstag, 4. Februar 2025 07:15:00"

Metas == {MetaFull, MetaRange, MetaBare, MetaDash, MetaBadMonth, MetaNoPage}

Gaps == {"", "Notiz"}

Focus == "Focus is the new IQ."

Bodies ==
    { <<Focus>>,
      <<>>,
      <<SEPARATOR, DeepWork, "- Deine Markierung auf Seite 1">>,
      <<"  Deep work is rare.  ", SEPARATOR, DeepWork,
        "  - Deine Markierung auf Seite 1", "It is valuable.">> }

\* How a record ends: directly with the separator line, or with a blank
\* line before it.
Ends == {<<SEPARATOR>>, <<"", SEPARATOR>>}

\* A record: title line, metadata line, one line, body lines, end.
Record(t, m, g, b, e) == <<t, m, g>> \o b \o e

\* The title, metadata, gap and body of the records: the record of the
\* example export with one of its four parts varied.
Variants ==
    {<<t, MetaFull, "", <<Focus>> >> : t \in Titles}
    \cup {<<DeepWork, m, "", <<Focus>> >> : m \in Metas}
    \cup {<<DeepWork, MetaFull, g, <<Focus>> >> : g \in Gaps}
    \cup {<<DeepWork, MetaFull, "", b>> : b \in Bodies}

Records == {Record(v[1], v[2], v[3], v[4], e) : v \in Variants, e \in Ends}

\* Lines between the records that start no record.
Strays == {<<"">>, <<"   ">>}

Chunks == Records \cup Strays

RECURSIVE Flatten(_)
Flatten(chunks) ==
    IF chunks = <<>> THEN <<>> ELSE chunks[1] \o Flatten(Tail(chunks))

RECURSIVE FileText(_)
\* The text of a file of these lines, each ended by a line feed.
FileText(ls) ==
    IF ls = <<>> THEN ""
    ELSE IF Len(ls) = 1 THEN ls[1] \o "\n"
    ELSE FileText(SubSeq(ls, 1, Len(ls) \div 2))
         \o FileText(SubSeq(ls, Len(ls) \div 2 + 1, Len(ls)))

Exports ==
    {FileText(Flatten(cs)) :
        cs \in UNION {[1..n -> Chunks] : n \in 0..MaxChunks}}

(***************************************************************************)
(* parse_kindle_annotations as a state machine                             *)
(***************************************************************************)

VARIABLES
    text,              \* the argument
    lines,             \* lines
    grouped,           \* grouped: the titles in insertion order, each
                       \* with its list of entries
    i, j,              \* the scan index and the body index (0-based)
    title, page, timestamp, annotation_lines,
    k,                 \* the position of the final loop over grouped
    pc,                \* "start", "scan", "body", "sort", "done", "raised"
    exc,               \* the exception that left the function, or ""
    result,            \* the mapping returned (once pc = "done")
    records,           \* history: the records matched so far, with the
                       \* lines of their body run and what was emitted
    iterations,        \* history: how often the body of the loop of
                       \* line 103 was entered
    ts_parts,          \* how the argument of the call below was put
                       \* together: weekday, what follows it, the groups
    ts_raw,            \* the argument of a call of normalize_timestamp
    ts_pc,             \* "idle", "call", "returned", "raised"
    ts_out,            \* the outcome of that call
    raw_dir,           \* RAW_DIR: the entries by name, with their kind
                       \* and, for a file, its text
    clean_dir,         \* CLEAN_DIR: the mapping dumped to each file
    raw_dir0,          \* history: RAW_DIR at the call
    clean_dir0,        \* history: CLEAN_DIR at the call
    delete_old,        \* the argument of select_and_cleanup_raw_files
    todo,              \* the entries RAW_DIR.iterdir() has yet to yield
    dated_files,       \* dated_files: pairs <<file_date, name>>
    u,                 \* the position of the loop of line 48
    s_pc,              \* "idle", "iterdir", "cleanup", "returned", "raised"
    s_out,             \* the outcome of select_and_cleanup_raw_files
    m_pc,              \* main: "idle", "start", "select", "parse", "done",
                       \* "raised"
    blocks,            \* the argument of append_blocks
    b_i,               \* i of the loop of line 71
    requests,          \* history: the batches of the requests made
    children,          \* the children of the page at Notion
    b_pc               \* "idle", "loop", "done", "raised"

vars ==
    <<text, lines, grouped, i, j, title, page, timestamp, annotation_lines,
      k, pc, exc, result, records, iterations, ts_parts, ts_raw, ts_pc,
      ts_out, raw_dir, clean_dir, raw_dir0, clean_dir0, delete_old, todo,
      dated_files, u, s_pc, s_out, m_pc, blocks, b_i, requests, children,
      b_pc>>

\* The variables of the parser and those of everything else.
parserVars ==
    <<text, lines, grouped, i, j, title, page, timestamp, annotation_lines,
      k, pc, exc, result, records, iterations>>

tsVars == <<ts_parts, ts_raw, ts_pc, ts_out>>

\* The variables of select_and_cleanup_raw_files and main.
fsVars ==
    <<raw_dir, clean_dir, raw_dir0, clean_dir0, delete_old, todo,
      dated_files, u, s_pc, s_out, m_pc>>

\* The variables of append_blocks.
notionVars == <<blocks, b_i, requests, children, b_pc>>

nonParserVars == <<tsVars, fsVars, notionVars>>

\* A directory without entries.
EmptyDir == [n \in {} |-> n]

\* Neither select_and_cleanup_raw_files nor main is running.
FsIdle ==
    /\ raw_dir = EmptyDir
    /\ clean_dir = EmptyDir
    /\ raw_dir0 = EmptyDir
    /\ clean_dir0 = EmptyDir
    /\ delete_old = TRUE
    /\ todo = {}
    /\ dated_files = <<>>
    /\ u = 0
    /\ s_pc = "idle"
    /\ s_out = Returned("")
    /\ m_pc = "idle"

\* append_blocks is not running.
NotionIdle ==
    /\ blocks = <<>>
    /\ b_i = 0
    /\ requests = <<>>
    /\ children = <<>>
    /\ b_pc = "idle"

\* No call of normalize_timestamp on its own is under way.
TsIdle ==
    /\ ts_parts = [w |-> "", c |-> "", d |-> "", m |-> "", y |-> "", t |-> "",
                   n |-> 0]
    /\ ts_raw = ""
    /\ ts_pc = "idle"
    /\ ts_out = Returned("")

\* lines[n] of the code
Line(n) == lines[n + 1]

Init ==
    /\ text \in Exports
    /\ lines = <<>>
    /\ grouped = <<>>
    /\ i = 0
    /\ j = 0
    /\ title = ""
    /\ page = None
    /\ timestamp = None
    /\ annotation_lines = <<>>
    /\ k = 0
    /\ pc = "start"
    /\ exc = ""
    /\ result = <<>>
    /\ records = <<>>
    /\ iterations = 0
    /\ TsIdle
    /\ FsIdle
    /\ NotionIdle

\* Lines 99..102: the lines without trailing white space, the empty
\* mapping, i = 0.
Start ==
    /\ pc = "start"
    /\ lines' = LET raw == splitlines(text)
                IN  [n \in 1..Len(raw) |-> rstrip(raw[n], Whitespace)]
    /\ grouped' = <<>>
    /\ i' = 0
    /\ pc' = "scan"
    /\ UNCHANGED <<text, j, title, page, timestamp, annotation_lines, k, exc,
                   result, records>>
    /\ UNCHANGED iterations
    /\ UNCHANGED nonParserVars

\* Line 103: the loop condition.
InScan == i < Len(lines) - 2

\* Line 107, negated: lines i and i+1 start a record.
IsRecordStart(first, second) ==
    /\ normalize_title(first) # ""
    /\ startswith(strip(second), META_PREFIX)

\* Lines 104..109: no record starts at i.
SkipLine ==
    /\ pc = "scan"
    /\ InScan
    /\ ~IsRecordStart(Line(i), Line(i + 1))
    /\ i' = i + 1
    /\ UNCHANGED <<text, lines, grouped, j, title, page, timestamp,
                   annotation_lines, k, pc, exc, result, records>>
    /\ iterations' = iterations + 1
    /\ UNCHANGED nonParserVars

\* Line 115 with normalize_timestamp called on the whole metadata line,
\* whether or not TIMESTAMP_PATTERN matches it.
TimestampCall_Unmatched == normalize_timestamp(strip(Line(i + 1)))

\* Line 115 for the metadata line at i+1.
TimestampCall ==
    LET raw == RawTimestampOf(strip(Line(i + 1)))
    IN  IF raw = None THEN Returned(None) ELSE normalize_timestamp(raw)

\* MatchRecord with the body run started at line i+2.
MatchRecord_FromGap ==
    /\ pc = "scan"
    /\ InScan
    /\ IsRecordStart(Line(i), Line(i + 1))
    /\ TimestampCall.exc = ""
    /\ title' = normalize_title(Line(i))
    /\ page' = PageOf(strip(Line(i + 1)))
    /\ timestamp' = TimestampCall.value
    /\ j' = i + 2
    /\ annotation_lines' = <<>>
    /\ pc' = "body"
    /\ UNCHANGED <<text, lines, grouped, i, k, exc, result, records>>
    /\ iterations' = iterations + 1
    /\ UNCHANGED nonParserVars

\* Lines 104..119: a record starts at i; its page and timestamp.
MatchRecord ==
    /\ pc = "scan"
    /\ InScan
    /\ IsRecordStart(Line(i), Line(i + 1))
    /\ TimestampCall.exc = ""
    /\ title' = normalize_title(Line(i))
    /\ page' = PageOf(strip(Line(i + 1)))
    /\ timestamp' = TimestampCall.value
    /\ j' = i + 3
    /\ annotation_lines' = <<>>
    /\ pc' = "body"
    /\ UNCHANGED <<text, lines, grouped, i, k, exc, result, records>>
    /\ iterations' = iterations + 1
    /\ UNCHANGED nonParserVars

\* Line 115: normalize_timestamp raises and nothing catches it.
MatchRaise ==
    /\ pc = "scan"
    /\ InScan
    /\ IsRecordStart(Line(i), Line(i + 1))
    /\ TimestampCall.exc # ""
    /\ exc' = TimestampCall.exc
    /\ pc' = "raised"
    /\ UNCHANGED <<text, lines, grouped, i, j, title, page, timestamp,
                   annotation_lines, k, result, records>>
    /\ iterations' = iterations + 1
    /\ UNCHANGED nonParserVars

\* Line 121: the condition of the body loop.
InBody == j < Len(lines) /\ strip(Line(j)) # ""

\* Lines 122..129: a noise line of the body run is passed over.
BodySkip ==
    /\ pc = "body"
    /\ InBody
    /\ IsNoise(strip(Line(j)), title)
    /\ j' = j + 1
    /\ UNCHANGED <<text, lines, grouped, i, title, page, timestamp,
                   annotation_lines, k, pc, exc, result, records>>
    /\ UNCHANGED iterations
    /\ UNCHANGED nonParserVars

\* Lines 122..131: any other line of the body run is kept.
BodyAppend ==
    /\ pc = "body"
    /\ InBody
    /\ ~IsNoise(strip(Line(j)), title)
    /\ annotation_lines' = Append(annotation_lines, strip(Line(j)))
    /\ j' = j + 1
    /\ UNCHANGED <<text, lines, grouped, i, title, page, timestamp, k, pc,
                   exc, result, records>>
    /\ UNCHANGED iterations
    /\ UNCHANGED nonParserVars

\* Line 133
annotation_text == strip(join("\n", annotation_lines))

\* IsEmitted without the test of line 135.
IsEmitted_Always(t) == TRUE

\* Line 135: whether the entry is emitted.
IsEmitted(t) == t # ""

\* grouped[key].append(entry) on the defaultdict(list).
GroupedAppend(g, key, entry) ==
    IF \E n \in 1..Len(g) : g[n].title = key
    THEN [n \in 1..Len(g) |->
             IF g[n].title = key
             THEN [g[n] EXCEPT !.items = Append(@, entry)]
             ELSE g[n]]
    ELSE Append(g, [title |-> key, items |-> <<entry>>])

\* What the history keeps of the record whose body run ends at j.
Matched(emitted) ==
    [start |-> i, stop |-> j, title |-> title, text |-> annotation_text,
     page |-> page, timestamp |-> timestamp, emitted |-> emitted]

\* Lines 133..144: the body run is over and its text is not empty.
EmitEntry ==
    /\ pc = "body"
    /\ ~InBody
    /\ IsEmitted(annotation_text)
    /\ grouped' = GroupedAppend(grouped, title,
                      [text |-> annotation_text, page |-> page,
                       timestamp |-> timestamp])
    /\ records' = Append(records, Matched(TRUE))
    /\ i' = j + 1
    /\ pc' = "scan"
    /\ UNCHANGED <<text, lines, j, title, page, timestamp, annotation_lines,
                   k, exc, result>>
    /\ UNCHANGED iterations
    /\ UNCHANGED nonParserVars

\* DropEntry with the scan going on at j, the line that ended the run.
DropEntry_AtRunEnd ==
    /\ pc = "body"
    /\ ~InBody
    /\ ~IsEmitted(annotation_text)
    /\ records' = Append(records, Matched(FALSE))
    /\ i' = j
    /\ pc' = "scan"
    /\ UNCHANGED <<text, lines, grouped, j, title, page, timestamp,
                   annotation_lines, k, exc, result>>
    /\ UNCHANGED iterations
    /\ UNCHANGED nonParserVars

\* Lines 133..144: the body run is over and its text is empty.
DropEntry ==
    /\ pc = "body"
    /\ ~InBody
    /\ ~IsEmitted(annotation_text)
    /\ records' = Append(records, Matched(FALSE))
    /\ i' = j + 1
    /\ pc' = "scan"
    /\ UNCHANGED <<text, lines, grouped, j, title, page, timestamp,
                   annotation_lines, k, exc, result>>
    /\ UNCHANGED iterations
    /\ UNCHANGED nonParserVars

\* Line 103: the scan loop ends.
EndScan ==
    /\ pc = "scan"
    /\ ~InScan
    /\ k' = 1
    /\ pc' = "sort"
    /\ UNCHANGED <<text, lines, grouped, i, j, title, page, timestamp,
                   annotation_lines, exc, result, records>>
    /\ UNCHANGED iterations
    /\ UNCHANGED nonParserVars

\* Lines 146..147: the list of the next title is sorted in place.
SortTitle ==
    /\ pc = "sort"
    /\ k <= Len(grouped)
    /\ grouped' = [grouped EXCEPT ![k].items = sortItems(@)]
    /\ k' = k + 1
    /\ UNCHANGED <<text, lines, i, j, title, page, timestamp,
                   annotation_lines, pc, exc, result, records>>
    /\ UNCHANGED iterations
    /\ UNCHANGED nonParserVars

\* Line 149
Return ==
    /\ pc = "sort"
    /\ k > Len(grouped)
    /\ result' = grouped
    /\ pc' = "done"
    /\ UNCHANGED <<text, lines, grouped, i, j, title, page, timestamp,
                   annotation_lines, k, exc, records>>
    /\ UNCHANGED iterations
    /\ UNCHANGED nonParserVars

Next ==
    \/ Start
    \/ SkipLine
    \/ MatchRecord
    \/ MatchRaise
    \/ BodySkip
    \/ BodyAppend
    \/ EmitEntry
    \/ DropEntry
    \/ EndScan
    \/ SortTitle
    \/ Return

Spec == Init /\ [][Next]_vars

\* The exports of the runs to the end: none, one or two of records that
\* are emitted, a record that is dropped, a record whose timestamp makes
\* the parser raise, and lines that start no record.
LiveChunks ==
    { Record(DeepWork, MetaFull, "", <<Focus>>, <<"", SEPARATOR>>),
      Record(BOM \o DeepWork, MetaRange, "",
             <<"  Deep work is rare.  ", SEPARATOR, "It is valuable.">>,
             <<"", SEPARATOR>>),
      Record(DeepWork, MetaBare, "Notiz", <<>>, <<"", SEPARATOR>>),
      Record("Dune", MetaBadMonth, "", <<Focus>>, <<SEPARATOR>>),
      <<"">>,
      <<"   ">> }

LiveExports ==
    {""} \cup {FileText(a) : a \in LiveChunks}
         \cup {FileText(a \o b) : a \in LiveChunks, b \in LiveChunks}

InitFair ==
    /\ text \in LiveExports
    /\ lines = <<>>
    /\ grouped = <<>>
    /\ i = 0
    /\ j = 0
    /\ title = ""
    /\ page = None
    /\ timestamp = None
    /\ annotation_lines = <<>>
    /\ k = 0
    /\ pc = "start"
    /\ exc = ""
    /\ result = <<>>
    /\ records = <<>>
    /\ iterations = 0
    /\ TsIdle
    /\ FsIdle
    /\ NotionIdle

\* The function has returned or raised: no step of Next is left.
Ended == pc \in {"done", "raised"}

\* The function is one sequential pass that nothing suspends: a step that
\* can be taken is taken. This is weak fairness of Next, WF_vars(Next),
\* with ENABLED <<Next>>_vars written out as ~Ended.
FairSpec ==
    InitFair /\ [][Next]_vars /\ ([]<>Ended \/ []<><<Next>>_vars)

(***************************************************************************)
(* normalize_timestamp called on its own                                   *)
(***************************************************************************)

\* The number of space-separated groups after the comma of an input.
MaxGroups == 5

Weekdays == {"Donnerstag", "Mo"}

\* What stands between the weekday and the groups.
Commas == {", ", ",", " ", ""}

\* The day group, with and without its dot.
DayGroups == {"1.", "25.", "7"}

MonthNames ==
    <<"Januar", "Februar", "März", "April", "Mai", "Juni", "Juli", "August",
      "September", "Oktober", "November", "Dezember">>

\* The month group: the 12 names, and groups that are none of them.
MonthGroups == {MonthNames[n] : n \in 1..12} \cup {"Marz", "dezember", ""}

Years == {"2025"}

Times == {"12:01:07", "09:00:00"}

\* The first n of the groups day, month, year, time and further ones.
Groups(d, m, y, t, n) ==
    SubSeq(<<d, m, y, t>> \o [x \in 1..n |-> "Uhr"], 1, n)

\* The input made of a weekday, what follows it, and n groups.
TimestampText(p) ==
    p.w \o p.c \o join(" ", Groups(p.d, p.m, p.y, p.t, p.n))

TimestampParts ==
    [w : Weekdays, c : Commas, d : DayGroups, m : MonthGroups, y : Years,
     t : Times, n : 0..MaxGroups]

\* The parser is not running.
ParserIdle ==
    /\ text = ""
    /\ lines = <<>>
    /\ grouped = <<>>
    /\ i = 0
    /\ j = 0
    /\ title = ""
    /\ page = None
    /\ timestamp = None
    /\ annotation_lines = <<>>
    /\ k = 0
    /\ pc = "idle"
    /\ exc = ""
    /\ result = <<>>
    /\ records = <<>>
    /\ iterations = 0

InitTs ==
    /\ ParserIdle
    /\ ts_parts \in TimestampParts
    /\ ts_raw = TimestampText(ts_parts)
    /\ ts_pc = "call"
    /\ ts_out = Returned("")
    /\ FsIdle
    /\ NotionIdle

\* Lines 64..86: the call returns the ISO string.
TsReturn ==
    /\ ts_pc = "call"
    /\ normalize_timestamp(ts_raw).exc = ""
    /\ ts_out' = normalize_timestamp(ts_raw)
    /\ ts_pc' = "returned"
    /\ UNCHANGED <<ts_parts, ts_raw, parserVars, fsVars, notionVars>>

\* Lines 64..85: an unpacking or the month lookup raises.
TsRaise ==
    /\ ts_pc = "call"
    /\ normalize_timestamp(ts_raw).exc # ""
    /\ ts_out' = normalize_timestamp(ts_raw)
    /\ ts_pc' = "raised"
    /\ UNCHANGED <<ts_parts, ts_raw, parserVars, fsVars, notionVars>>

NextTs ==
    \/ TsReturn
    \/ TsRaise

SpecTs == InitTs /\ [][NextTs]_vars

(***************************************************************************)
(* select_and_cleanup_raw_files and main                                   *)
(***************************************************************************)

FILENAME_TAIL == "_kindle_annotations_raw.txt"

\* FILENAME_DATE_PATTERN.match(name): the group "date", or None. The
\* pattern is 8 digits and the tail between ^ and $, and $ matches at
\* the end of the name and also before a line feed that ends it.
FilenameDate(name) ==
    LET n == 8 + Len(FILENAME_TAIL)
    IN  IF /\ Len(name) \in {n, n + 1}
           /\ \A x \in 1..8 : SubSeq(name, x, x) \in Digits
           /\ SubSeq(name, 9, n) = FILENAME_TAIL
           /\ Len(name) = n + 1 => SubSeq(name, n + 1, n + 1) = "\n"
        THEN SubSeq(name, 1, 8)
        ELSE None

\* Whether a year is a leap year.
IsLeap(y) == y % 4 = 0 /\ (y % 100 # 0 \/ y % 400 = 0)

\* The number of days of a month.
DaysIn(y, m) ==
    IF m = 2 THEN (IF IsLeap(y) THEN 29 ELSE 28)
    ELSE IF m \in {4, 6, 9, 11} THEN 30 ELSE 31

\* datetime.strptime(date, "%Y%m%d") for 8 digits: the date as
\* <<year, month, day>>, or ValueError when there is no such day.
strptime(date) ==
    LET y == int(SubSeq(date, 1, 4))
        m == int(SubSeq(date, 5, 6))
        d == int(SubSeq(date, 7, 8))
    IN  IF y >= 1 /\ m \in 1..12 /\ d >= 1 /\ d <= DaysIn(y, m)
        THEN Returned(<<y, m, d>>)
        ELSE Raised("ValueError")

\* extract_date_from_filename(path), for the name of the path.
extract_date_from_filename(name) ==
    IF FilenameDate(name) = None THEN Raised("ValueError")
    ELSE strptime(FilenameDate(name))

\* a < b on dates
DateLess(a, b) ==
    \/ a[1] < b[1]
    \/ a[1] = b[1] /\ a[2] < b[2]
    \/ a[1] = b[1] /\ a[2] = b[2] /\ a[3] < b[3]

RECURSIVE insertDated(_, _)
\* x put into the sorted list after every pair whose date is not greater.
insertDated(sorted, x) ==
    IF sorted = <<>> THEN <<x>>
    ELSE IF DateLess(x[1], sorted[1][1]) THEN <<x>> \o sorted
         ELSE <<sorted[1]>> \o insertDated(Tail(sorted), x)

RECURSIVE sortDated(_)
\* dated_files.sort(key=lambda x: x[0]): ascending and stable.
sortDated(pairs) ==
    IF pairs = <<>> THEN <<>>
    ELSE insertDated(sortDated(SubSeq(pairs, 1, Len(pairs) - 1)),
                     pairs[Len(pairs)])

\* A regular file with its text, and a directory.
File(t) == [kind |-> "file", text |-> t]

Directory == [kind |-> "dir", text |-> ""]

\* The number of entries of RAW_DIR.
MaxEntries == 3

Raw2024 == "20241231_kindle_annotations_raw.txt"

RawJan == "20250101_kindle_annotations_raw.txt"

RawFeb == "20250215_kindle_annotations_raw.txt"

\* A name with a line feed at its end.
RawLineFeed == "20260101_kindle_annotations_raw.txt\n"

\* Names of files: dated ones, one whose 8 digits are no date, and ones
\* that are not of the form.
FileNames ==
    {Raw2024, RawJan, RawFeb, RawLineFeed,
     "20250229_kindle_annotations_raw.txt",
     "2025010_kindle_annotations_raw.txt",
     "20250301_kindle_annotations_raw.txt.bak",
     "notes.txt"}

\* Names of directories.
DirectoryNames == {"20250301_kindle_annotations_raw.txt"}

\* The directories select_and_cleanup_raw_files is run on.
RawDirs ==
    {[n \in S |-> IF n \in DirectoryNames THEN Directory ELSE File("")] :
        S \in {T \in SUBSET (FileNames \cup DirectoryNames) :
                  Cardinality(T) <= MaxEntries}}

InitSelect ==
    /\ ParserIdle
    /\ TsIdle
    /\ NotionIdle
    /\ raw_dir \in RawDirs
    /\ raw_dir0 = raw_dir
    /\ clean_dir = EmptyDir
    /\ clean_dir0 = EmptyDir
    /\ delete_old \in BOOLEAN
    /\ todo = DOMAIN raw_dir
    /\ dated_files = <<>>
    /\ u = 0
    /\ s_pc = "iterdir"
    /\ s_out = Returned("")
    /\ m_pc = "idle"

\* Lines 32..38: the next entry is no file, or its name yields no date.
IterSkip ==
    /\ s_pc = "iterdir"
    /\ \E name \in todo :
         /\ \/ raw_dir[name].kind # "file"
            \/ extract_date_from_filename(name).exc = "ValueError"
         /\ todo' = todo \ {name}
    /\ UNCHANGED <<raw_dir, clean_dir, raw_dir0, clean_dir0, delete_old,
                   dated_files, u, s_pc, s_out, m_pc>>
    /\ UNCHANGED <<parserVars, tsVars, notionVars>>

\* Lines 32..39: the next entry is a file whose name yields a date.
IterAppend ==
    /\ s_pc = "iterdir"
    /\ \E name \in todo :
         /\ raw_dir[name].kind = "file"
         /\ extract_date_from_filename(name).exc = ""
         /\ dated_files' =
              Append(dated_files,
                     <<extract_date_from_filename(name).value, name>>)
         /\ todo' = todo \ {name}
    /\ UNCHANGED <<raw_dir, clean_dir, raw_dir0, clean_dir0, delete_old, u,
                   s_pc, s_out, m_pc>>
    /\ UNCHANGED <<parserVars, tsVars, notionVars>>

\* Lines 41..42
RaiseNotFound ==
    /\ s_pc = "iterdir"
    /\ todo = {}
    /\ dated_files = <<>>
    /\ s_out' = Raised("FileNotFoundError")
    /\ s_pc' = "raised"
    /\ UNCHANGED <<raw_dir, clean_dir, raw_dir0, clean_dir0, delete_old,
                   todo, dated_files, u, m_pc>>
    /\ UNCHANGED <<parserVars, tsVars, notionVars>>

\* Lines 44..45: the pairs sorted by date; the last one is the newest.
SortDated ==
    /\ s_pc = "iterdir"
    /\ todo = {}
    /\ dated_files # <<>>
    /\ dated_files' = sortDated(dated_files)
    /\ u' = 1
    /\ s_pc' = "cleanup"
    /\ UNCHANGED <<raw_dir, clean_dir, raw_dir0, clean_dir0, delete_old,
                   todo, s_out, m_pc>>
    /\ UNCHANGED <<parserVars, tsVars, notionVars>>

\* newest_date, newest_file
newest == dated_files[Len(dated_files)]

\* Line 47 and the loop condition of line 48.
InCleanup == delete_old /\ u <= Len(dated_files)

\* Lines 48..50: path.unlink() for a file older than the newest.
Unlink ==
    /\ s_pc = "cleanup"
    /\ InCleanup
    /\ DateLess(dated_files[u][1], newest[1])
    /\ raw_dir' = [n \in DOMAIN raw_dir \ {dated_files[u][2]} |-> raw_dir[n]]
    /\ u' = u + 1
    /\ UNCHANGED <<clean_dir, raw_dir0, clean_dir0, delete_old, todo,
                   dated_files, s_pc, s_out, m_pc>>
    /\ UNCHANGED <<parserVars, tsVars, notionVars>>

\* Lines 48..49: a file as new as the newest is kept.
KeepFile ==
    /\ s_pc = "cleanup"
    /\ InCleanup
    /\ ~DateLess(dated_files[u][1], newest[1])
    /\ u' = u + 1
    /\ UNCHANGED <<raw_dir, clean_dir, raw_dir0, clean_dir0, delete_old,
                   todo, dated_files, s_pc, s_out, m_pc>>
    /\ UNCHANGED <<parserVars, tsVars, notionVars>>

\* Line 52
SelectReturn ==
    /\ s_pc = "cleanup"
    /\ ~InCleanup
    /\ s_out' = Returned(newest[2])
    /\ s_pc' = "returned"
    /\ UNCHANGED <<raw_dir, clean_dir, raw_dir0, clean_dir0, delete_old,
                   todo, dated_files, u, m_pc>>
    /\ UNCHANGED <<parserVars, tsVars, notionVars>>

NextSelect ==
    \/ IterSkip
    \/ IterAppend
    \/ RaiseNotFound
    \/ SortDated
    \/ Unlink
    \/ KeepFile
    \/ SelectReturn

SpecSelect == InitSelect /\ [][NextSelect]_vars

(***************************************************************************)
(* main                                                                    *)
(***************************************************************************)

CLEAN_TAIL == "_kindle_annotations_clean.json"

\* The texts of the raw files main is run on: an empty file, an export
\* with a blank line, a record that is emitted and a record that is
\* dropped, and an export whose timestamp makes the parser raise.
MainTexts ==
    { "",
      FileText(<<"", DeepWork, MetaFull, "", Focus, "", SEPARATOR,
                 DeepWork, MetaBare, "", SEPARATOR>>),
      FileText(<<"Dune", MetaBadMonth, "", Focus, SEPARATOR>>) }

MainNames == {RawJan, RawFeb, RawLineFeed, "notes.txt"}

\* RAW_DIR when main starts.
MainDirs ==
    UNION {[S -> {File(t) : t \in MainTexts}] : S \in SUBSET MainNames}

\* CLEAN_DIR when main starts: empty, or with the file of an earlier run.
CleanDirs ==
    {EmptyDir,
     [n \in {"20250215" \o CLEAN_TAIL} |->
         <<[title |-> "Dune",
            items |-> <<[text |-> "Fear is the mind-killer.",
                         page |-> "7", timestamp |-> None]>>]>>]}

InitMain ==
    /\ ParserIdle
    /\ TsIdle
    /\ NotionIdle
    /\ raw_dir \in MainDirs
    /\ raw_dir0 = raw_dir
    /\ clean_dir \in CleanDirs
    /\ clean_dir0 = clean_dir
    /\ delete_old = TRUE
    /\ todo = {}
    /\ dated_files = <<>>
    /\ u = 0
    /\ s_pc = "idle"
    /\ s_out = Returned("")
    /\ m_pc = "start"

\* Line 153: the call select_and_cleanup_raw_files(delete_old=True).
MainSelect ==
    /\ m_pc = "start"
    /\ delete_old' = TRUE
    /\ todo' = DOMAIN raw_dir
    /\ dated_files' = <<>>
    /\ s_pc' = "iterdir"
    /\ m_pc' = "select"
    /\ UNCHANGED <<raw_dir, clean_dir, raw_dir0, clean_dir0, u, s_out>>
    /\ UNCHANGED <<parserVars, tsVars, notionVars>>

\* Line 153: the FileNotFoundError leaves main.
MainSelectRaised ==
    /\ m_pc = "select"
    /\ s_pc = "raised"
    /\ m_pc' = "raised"
    /\ UNCHANGED <<raw_dir, clean_dir, raw_dir0, clean_dir0, delete_old,
                   todo, dated_files, u, s_pc, s_out>>
    /\ UNCHANGED <<parserVars, tsVars, notionVars>>

\* Lines 153..156: raw_file is returned, its text is read and
\* parse_kindle_annotations is called on it.
ReadText ==
    /\ m_pc = "select"
    /\ s_pc = "returned"
    /\ text' = raw_dir[s_out.value].text
    /\ pc' = "start"
    /\ m_pc' = "parse"
    /\ UNCHANGED <<lines, grouped, i, j, title, page, timestamp,
                   annotation_lines, k, exc, result, records, iterations>>
    /\ UNCHANGED <<raw_dir, clean_dir, raw_dir0, clean_dir0, delete_old,
                   todo, dated_files, u, s_pc, s_out>>
    /\ UNCHANGED <<tsVars, notionVars>>

\* Line 156: the error of normalize_timestamp leaves main.
MainParseRaised ==
    /\ m_pc = "parse"
    /\ pc = "raised"
    /\ m_pc' = "raised"
    /\ UNCHANGED <<raw_dir, clean_dir, raw_dir0, clean_dir0, delete_old,
                   todo, dated_files, u, s_pc, s_out>>
    /\ UNCHANGED <<parserVars, tsVars, notionVars>>

\* WriteClean for a parse that returned or raised.
WriteClean_Always ==
    /\ m_pc = "parse"
    /\ pc \in {"done", "raised"}
    /\ clean_dir' =
         [n \in DOMAIN clean_dir \cup {SubSeq(s_out.value, 1, 8) \o CLEAN_TAIL}
             |-> IF n = SubSeq(s_out.value, 1, 8) \o CLEAN_TAIL THEN result
                 ELSE clean_dir[n]]
    /\ m_pc' = "done"
    /\ UNCHANGED <<raw_dir, raw_dir0, clean_dir0, delete_old, todo,
                   dated_files, u, s_pc, s_out>>
    /\ UNCHANGED <<parserVars, tsVars, notionVars>>

\* Lines 156..166: the mapping returned is dumped to the file named by
\* the first 8 characters of the name of raw_file; the file is kept here
\* as the mapping dumped to it.
WriteClean ==
    /\ m_pc = "parse"
    /\ pc = "done"
    /\ clean_dir' =
         [n \in DOMAIN clean_dir \cup {SubSeq(s_out.value, 1, 8) \o CLEAN_TAIL}
             |-> IF n = SubSeq(s_out.value, 1, 8) \o CLEAN_TAIL THEN result
                 ELSE clean_dir[n]]
    /\ m_pc' = "done"
    /\ UNCHANGED <<raw_dir, raw_dir0, clean_dir0, delete_old, todo,
                   dated_files, u, s_pc, s_out>>
    /\ UNCHANGED <<parserVars, tsVars, notionVars>>

NextMain ==
    \/ MainSelect
    \/ NextSelect
    \/ MainSelectRaised
    \/ ReadText
    \/ Next
    \/ MainParseRaised
    \/ WriteClean

SpecMain == InitMain /\ [][NextMain]_vars

(***************************************************************************)
(* json_to_notion_page.py: append_blocks                                   *)
(***************************************************************************)

\* The step of range(0, len(blocks), 100) and the length of a slice.
BatchSize == 100

\* The number of blocks of a page.
MaxBlocks == 201

\* The lists of blocks append_blocks is called with: the blocks of a page,
\* each one known by its place.
BlockLists == {[x \in 1..n |-> x] : n \in 0..MaxBlocks}

InitNotion ==
    /\ ParserIdle
    /\ TsIdle
    /\ FsIdle
    /\ blocks \in BlockLists
    /\ b_i = 0
    /\ requests = <<>>
    /\ children = <<>>
    /\ b_pc = "loop"

\* blocks[i:i + 101]: the slice with one block more.
Batch_OneMore(bs, n) ==
    SubSeq(bs, n + 1,
           IF n + BatchSize + 1 < Len(bs) THEN n + BatchSize + 1 ELSE Len(bs))

\* Line 72: blocks[i:i + 100]
Batch(bs, n) ==
    SubSeq(bs, n + 1, IF n + BatchSize < Len(bs) THEN n + BatchSize ELSE Len(bs))

\* Line 71: range(0, len(blocks), 100) has a further i.
InAppend == b_i < Len(blocks)

\* Lines 71..78: the request is answered without error: Notion has
\* appended the batch to the children of the page.
PatchDone ==
    /\ b_pc = "loop"
    /\ InAppend
    /\ requests' = Append(requests, Batch(blocks, b_i))
    /\ children' = children \o Batch(blocks, b_i)
    /\ b_i' = b_i + BatchSize
    /\ UNCHANGED <<blocks, b_pc>>
    /\ UNCHANGED <<parserVars, tsVars, fsVars>>

\* Lines 73..78: requests.patch or raise_for_status raises. Notion has
\* refused the batch, or has appended it and the answer was lost.
PatchRaise ==
    /\ b_pc = "loop"
    /\ InAppend
    /\ requests' = Append(requests, Batch(blocks, b_i))
    /\ \E appended \in BOOLEAN :
         children' = IF appended THEN children \o Batch(blocks, b_i)
                     ELSE children
    /\ b_pc' = "raised"
    /\ UNCHANGED <<blocks, b_i>>
    /\ UNCHANGED <<parserVars, tsVars, fsVars>>

\* Line 71: the loop is over and append_blocks returns.
AppendReturn ==
    /\ b_pc = "loop"
    /\ ~InAppend
    /\ b_pc' = "done"
    /\ UNCHANGED <<blocks, b_i, requests, children>>
    /\ UNCHANGED <<parserVars, tsVars, fsVars>>

NextNotion ==
    \/ PatchDone
    \/ PatchRaise
    \/ AppendReturn

SpecNotion == InitNotion /\ [][NextNotion]_vars

(***************************************************************************)
(* Properties                                                              *)
(***************************************************************************)

\* An entry as the mapping holds it.
Entry(t, p, ts) == [text |-> t, page |-> p, timestamp |-> ts]

\* The export of the example: one record of five lines.
ExampleExport == FileText(<<DeepWork, MetaFull, "", Focus, SEPARATOR>>)

\* C1: parsing the five-line "Deep Work" export returns exactly the key
\* "Deep Work" with the one entry of text "Focus is the new IQ.", page "42"
\* and timestamp "2025-01-01T09:00:00".
C1_ExampleResult ==
    (pc = "done" /\ text = ExampleExport)
        => result = <<[title |-> "Deep Work",
                       items |-> <<Entry("Focus is the new IQ.", "42",
                                         "2025-01-01T09:00:00")>>]>>

DigitChars == <<"0", "1", "2", "3", "4", "5", "6", "7", "8", "9">>

\* The number n < 100 written with two digits.
TwoDigits(n) == DigitChars[(n \div 10) + 1] \o DigitChars[(n % 10) + 1]

\* The day numbers of the inputs of the documented shape.
DayNumbers == {1, 25}

\* n written without leading zeros, for 0 < n < 100.
Decimal(n) == IF n < 10 THEN DigitChars[n + 1] ELSE TwoDigits(n)

\* "<Weekday>, <day>. <MonthName> <year> <HH:MM:SS>"
ShapedTimestamp(w, day, month, y, t) ==
    w \o ", " \o Decimal(day) \o ". " \o MonthNames[month] \o " " \o y
      \o " " \o t

\* C2: for every input "<Weekday>, <day>. <MonthName> <year> <HH:MM:SS>"
\* with a German month name, normalize_timestamp returns exactly
\* "<year>-<MM>-<DD>T<HH:MM:SS>", MM the two-digit month number and DD the
\* day number padded to two digits, digits only.
C2_IsoTimestamp ==
    \A w \in Weekdays, day \in DayNumbers, month \in 1..12, y \in Years,
       t \in Times :
        (ts_pc # "call" /\ ts_raw = ShapedTimestamp(w, day, month, y, t))
            => /\ ts_pc = "returned"
               /\ ts_out.value = y \o "-" \o TwoDigits(month) \o "-"
                                   \o TwoDigits(day) \o "T" \o t

\* The lines of a record's body that are neither the separator, the
\* record's title nor a metadata line, without surrounding white space.
RECURSIVE OwnLines(_, _)
OwnLines(body, t) ==
    IF body = <<>> THEN <<>>
    ELSE LET l == strip(body[1])
         IN  (IF l = "==========" \/ l = t
                 \/ startswith(l, "- Deine Markierung")
              THEN <<>> ELSE <<l>>) \o OwnLines(Tail(body), t)

\* The title under which a record <<title, metadata, gap, body>> is filed,
\* and the text that is the record's own.
TitleOf(v) == IF startswith(v[1], BOM) THEN Tail(v[1]) ELSE v[1]

OwnText(v) == join("\n", OwnLines(v[4], TitleOf(v)))

\* The records with a body of their own, a numeric page and a well-formed
\* timestamp or none.
NumericPageVariants ==
    {v \in Variants : OwnText(v) # "" /\ v[2] \in {MetaFull, MetaRange}}

\* The number that starts a page of the result.
LeadingNumber(p) == int(SubSeq(p, 1, span(p, 1, Digits) - 1))

\* C3: an export of two records with the same title, each with a non-empty
\* body and a numeric page, parses to exactly one key with exactly two
\* entries in ascending page order, whichever record comes first.
C3_TwoRecordsOneKey ==
    \A v1 \in NumericPageVariants, v2 \in NumericPageVariants,
       e1 \in Ends, e2 \in Ends :
        (/\ pc = "done"
         /\ TitleOf(v1) = TitleOf(v2)
         /\ text = FileText(Record(v1[1], v1[2], v1[3], v1[4], e1)
                            \o Record(v2[1], v2[2], v2[3], v2[4], e2)))
            => /\ Len(result) = 1
               /\ result[1].title = TitleOf(v1)
               /\ Len(result[1].items) = 2
               /\ LeadingNumber(result[1].items[1].page)
                    <= LeadingNumber(result[1].items[2].page)

\* All entries of a mapping, with the title they are filed under.
Filed(g) ==
    UNION {{<<g[n].title, g[n].items[m]>> : m \in 1..Len(g[n].items)} :
              n \in 1..Len(g)}

\* The number of entries of a mapping.
RECURSIVE EntryCount(_)
EntryCount(g) ==
    IF g = <<>> THEN 0 ELSE Len(g[1].items) + EntryCount(Tail(g))

\* C4: every record (title line, metadata line, one line, body lines, ended
\* by a blank line or directly by the separator) yields exactly one entry
\* under its own title whose text is that record's own body lines: there
\* are as many entries as records with a non-empty body, and each entry's
\* text is the body of one record of its title.
C4_OneEntryPerRecord ==
    \A n \in 1..MaxChunks :
        \A vs \in [1..n -> Variants], es \in [1..n -> Ends] :
            (/\ pc = "done"
             /\ text = FileText(Flatten(
                    [x \in 1..n |-> Record(vs[x][1], vs[x][2], vs[x][3],
                                           vs[x][4], es[x])])))
                => /\ EntryCount(result)
                        = Cardinality({x \in 1..n : OwnText(vs[x]) # ""})
                   /\ \A f \in Filed(result) :
                        \E x \in 1..n : /\ f[1] = TitleOf(vs[x])
                                        /\ f[2].text = OwnText(vs[x])

\* The lines lines[r.start + 3 .. r.stop - 1] of a matched record of the
\* history: its body run.
RunOf(r) == [n \in 1..(r.stop - r.start - 3) |-> Line(r.start + 2 + n)]

\* Whether a line is the separator, the title t or a metadata line.
IsMarker(l, t) ==
    l = "==========" \/ l = t \/ startswith(l, "- Deine Markierung")

\* C5: in the body run of a matched record a separator line, a line equal
\* to the title or a line starting with "- Deine Markierung" neither ends
\* the run nor gets into the text: the run goes on to the first blank line
\* or the end of the input, the text is the other lines of the run, and no
\* line of a text filed under a title is such a line.
C5_NoiseFiltered ==
    /\ \A x \in 1..Len(records) :
         LET r == records[x]
         IN  /\ r.start + 3 <= r.stop
             /\ r.stop <= Len(lines)
             /\ \A n \in (r.start + 3)..(r.stop - 1) : strip(Line(n)) # ""
             /\ r.stop = Len(lines) \/ strip(Line(r.stop)) = ""
             /\ r.text = join("\n", OwnLines(RunOf(r), r.title))
    /\ \A f \in Filed(grouped) :
         LET ls == splitAll(f[2].text, "\n")
         IN  \A n \in 1..Len(ls) : ~IsMarker(ls[n], f[1])

\* A record whose body run of five lines held a separator line, the title
\* and a metadata line was emitted with its two other lines.
C5_Witness ==
    \E x \in 1..Len(records) :
        /\ records[x].emitted
        /\ records[x].stop - records[x].start - 3 = 5
        /\ \E n \in 1..5 : strip(RunOf(records[x])[n]) = "=========="
        /\ \E n \in 1..5 : strip(RunOf(records[x])[n]) = records[x].title
        /\ records[x].text = "Deep work is rare.\nIt is valuable."
        /\ <<"Deep Work", Entry("Deep work is rare.\nIt is valuable.", "42",
                                records[x].timestamp)>> \in Filed(grouped)

\* C6: every entry has a non-empty text: a matched record whose body run
\* is empty or holds only noise lines is dropped, the parse goes on, and
\* the record adds no entry under its title.
C6_NoEmptyText ==
    /\ \A f \in Filed(grouped) : f[2].text # ""
    /\ \A x \in 1..Len(records) :
         records[x].emitted
            <=> OwnLines(RunOf(records[x]), records[x].title) # <<>>
    /\ \A n \in 1..Len(grouped) :
         Len(grouped[n].items)
            = Cardinality({x \in 1..Len(records) :
                  /\ records[x].title = grouped[n].title
                  /\ OwnLines(RunOf(records[x]), records[x].title) # <<>>})
    /\ pc = "raised" => RawTimestampOf(strip(Line(i + 1))) # None

\* The parse ended normally after a record whose body run held only noise
\* lines was dropped: nothing is filed under its title.
C6_Witness ==
    /\ pc = "done"
    /\ \E x \in 1..Len(records) :
         /\ ~records[x].emitted
         /\ records[x].stop - records[x].start - 3 = 3
         /\ \A n \in 1..Len(result) : result[n].title # records[x].title

\* Whether the first "-"-separated part of a page is a number.
Parseable(p) ==
    /\ p # None
    /\ span(p, 1, Digits) > 1
    /\ span(p, 1, Digits) = Len(p) + 1
          \/ SubSeq(p, span(p, 1, Digits), span(p, 1, Digits)) = "-"

\* C7: in every list of the result the entries are in ascending order of
\* the number before the first "-" of their page, and every entry without
\* such a number comes after all entries that have one.
C7_PageOrder ==
    pc = "done" =>
        \A n \in 1..Len(result) :
            LET items == result[n].items
            IN  \A a \in 1..Len(items), b \in 1..Len(items) :
                    (a < b /\ Parseable(items[b].page))
                        => /\ Parseable(items[a].page)
                           /\ LeadingNumber(items[a].page)
                                <= LeadingNumber(items[b].page)

\* The entries filed under title t, in the order their records were met.
RECURSIVE EncounteredFrom(_, _)
EncounteredFrom(rs, t) ==
    IF rs = <<>> THEN <<>>
    ELSE (IF rs[1].emitted /\ rs[1].title = t
          THEN <<Entry(rs[1].text, rs[1].page, rs[1].timestamp)>>
          ELSE <<>>) \o EncounteredFrom(Tail(rs), t)

Encountered(t) == EncounteredFrom(records, t)

\* A title whose entries were met in another order than the result has
\* them: one without a page number first, one with a page number after it.
C7_Witness ==
    /\ pc = "done"
    /\ \E n \in 1..Len(result) :
         LET met == Encountered(result[n].title)
         IN  /\ Len(met) >= 2
             /\ ~Parseable(met[1].page)
             /\ Parseable(met[2].page)
             /\ result[n].items # met

\* Whether two pages have the same sort key.
SameKey(p, q) ==
    IF Parseable(p) /\ Parseable(q) THEN LeadingNumber(p) = LeadingNumber(q)
    ELSE ~Parseable(p) /\ ~Parseable(q)

\* C8: the sort is stable: the entries of a title that have the same page
\* key (also those without a page number) are in the result in the order
\* their records were met.
C8_StableSort ==
    pc = "done" =>
        \A n \in 1..Len(result) :
            LET met   == Encountered(result[n].title)
                items == result[n].items
            IN  /\ Len(items) = Len(met)
                /\ \A a \in 1..Len(met) :
                     SelectSeq(items, LAMBDA e : SameKey(e.page, met[a].page))
                       = SelectSeq(met, LAMBDA e : SameKey(e.page, met[a].page))

\* The result holds two different entries of one title with the same page
\* key.
C8_Witness ==
    /\ pc = "done"
    /\ \E n \in 1..Len(result) :
         \E a \in 1..Len(result[n].items), b \in 1..Len(result[n].items) :
            /\ a < b
            /\ result[n].items[a] # result[n].items[b]
            /\ SameKey(result[n].items[a].page, result[n].items[b].page)

\* The metadata lines whose timestamp names no German month.
BadMonthMetas == {MetaBadMonth}

\* C9: when the metadata line of a matched record carries a timestamp
\* whose month name is none of the 12 German names, normalize_timestamp
\* raises and the failure leaves parse_kindle_annotations: the record gets
\* no page, date or body run, and no mapping is returned.
C9_BadMonthRaises ==
    /\ \A x \in 1..Len(records) :
         strip(Line(records[x].start + 1)) \notin BadMonthMetas
    /\ pc = "body" => strip(Line(i + 1)) \notin BadMonthMetas
    /\ pc = "raised" =>
         /\ exc = "KeyError"
         /\ strip(Line(i + 1)) \in BadMonthMetas
         /\ result = <<>>

\* The second record of an export has a month that is not German: the
\* call raised KeyError after the first record was filed.
C9_Witness ==
    /\ pc = "raised"
    /\ exc = "KeyError"
    /\ i > 0
    /\ strip(Line(i + 1)) = MetaBadMonth
    /\ Len(grouped) = 1
    /\ result = <<>>

\* Whether an input has the documented shape: after the weekday a comma
\* and a space, then the four groups day with dot, month, year and time.
HasShape(p) == p.c = ", " /\ p.d \in {"1.", "25."} /\ p.n = 4

\* C10 as stated: normalize_timestamp raises for every input that does not
\* have the shape "<Weekday>, <day>. <MonthName> <year> <HH:MM:SS>"
\* (missing comma, too few or too many groups after the comma) and never
\* returns a string for one.
C10_RaisesOffShape == ts_pc = "returned" => HasShape(ts_parts)

\* C10 as amended: normalize_timestamp raises ValueError when the input
\* has no comma or fewer than four groups, separated by single spaces,
\* after it, and KeyError when the second group is no German month name;
\* for every other input, also one with more than four groups, it returns
\* a string, the further groups being part of the time.
C10_RaisesOnFewGroups ==
    ts_pc \in {"returned", "raised"} =>
        LET p == ts_parts
        IN  IF p.c \in {" ", ""} \/ p.n < 4
            THEN ts_pc = "raised" /\ ts_out.exc = "ValueError"
            ELSE IF \A x \in 1..12 : p.m # MonthNames[x]
            THEN ts_pc = "raised" /\ ts_out.exc = "KeyError"
            ELSE /\ ts_pc = "returned"
                 /\ ts_out.value =
                      p.y \o "-" \o TwoDigits(CHOOSE x \in 1..12 :
                                                 p.m = MonthNames[x])
                          \o "-" \o zfill(p.d, 2) \o "T"
                          \o join(" ", <<p.t>> \o [x \in 1..(p.n - 4) |-> "Uhr"])

\* The call on an input without a comma raised ValueError.
C10_Witness ==
    /\ ts_pc = "raised"
    /\ ts_out.exc = "ValueError"
    /\ ts_raw = "Donnerstag 25. Dezember 2025 12:01:07"

\* No "Hinzugefügt am" stands anywhere in the text parsed.
Unstamped == find(text, "Hinzugefügt am", 1) = 0

\* No record starts at i: line i is empty once normalized, or line i+1
\* (surrounding white space aside) does not start with
\* "- Deine Markierung".
NoRecordAt(n) ==
    \/ strip(lstrip(Line(n), {BOM})) = ""
    \/ ~startswith(strip(Line(n + 1)), "- Deine Markierung")

\* C11: a line that starts no record is skipped alone and without error
\* (the scan goes on at i+1, nothing is filed, nothing is raised); the
\* parser raises only at a matched metadata line that contains
\* "Hinzugefügt am": on an input without any it never raises, and when it
\* ends it has returned the mapping.
C11_SkippedWithoutError ==
    /\ [][(pc = "scan" /\ i < Len(lines) - 2 /\ NoRecordAt(i))
            => /\ i' = i + 1
               /\ pc' = "scan"
               /\ exc' = ""
               /\ grouped' = grouped
               /\ records' = records]_vars
    /\ [](pc = "raised"
            => /\ ~NoRecordAt(i)
               /\ find(Line(i + 1), "Hinzugefügt am", 1) > 0)
    /\ []((pc = "raised" \/ exc # "") => ~Unstamped)
    /\ [](pc = "done" => (exc = "" /\ result = grouped))

\* An export without "Hinzugefügt am" was parsed to the end: lines were
\* skipped, a record was matched, and a mapping with an entry is returned.
C11_Witness ==
    /\ pc = "done"
    /\ Unstamped
    /\ exc = ""
    /\ Len(records) >= 1
    /\ iterations > Len(records)
    /\ Len(result) >= 1

\* Whether a metadata line has a part "Seite", white space, digits or
\* dashes.
HasPagePart(m) ==
    \E n \in 1..Len(m) :
        /\ SubSeq(m, n, n) = "S"
        /\ SubSeq(m, n, n + 4) = "Seite"
        /\ span(m, n + 5, {" ", "\t"}) > n + 5
        /\ span(m, n + 5, {" ", "\t"}) <= Len(m)
        /\ SubSeq(m, span(m, n + 5, {" ", "\t"}), span(m, n + 5, {" ", "\t"}))
              \in {"0", "1", "2", "3", "4", "5", "6", "7", "8", "9", "-"}

\* Whether a metadata line has a part "Hinzugefügt am " with something
\* after it.
HasStampPart(m) ==
    \E n \in 1..(Len(m) - 15) :
        SubSeq(m, n, n) = "H" /\ SubSeq(m, n, n + 14) = "Hinzugefügt am "

\* The metadata line of a matched record of the history.
MetaOf(r) == strip(Line(r.start + 1))

\* C12: a matched record whose text is not empty is emitted under its
\* title, with page None when its metadata line has no page part and with
\* timestamp None when it has no "Hinzugefügt am" part; a missing part
\* never makes the parser raise.
C12_MissingPartsAreNone ==
    /\ \A x \in 1..Len(records) :
         LET r == records[x]
         IN  /\ r.text # ""
                  => /\ r.emitted
                     /\ <<r.title, Entry(r.text, r.page, r.timestamp)>>
                           \in Filed(grouped)
             /\ ~HasPagePart(MetaOf(r)) => r.page = None
             /\ ~HasStampPart(MetaOf(r)) => r.timestamp = None
    /\ pc = "raised" => HasStampPart(strip(Line(i + 1)))

\* The parse ended with an entry that has neither page nor timestamp and
\* an entry that has a timestamp but no page.
C12_Witness ==
    /\ pc = "done"
    /\ \E f \in Filed(result) :
         f[2].text # "" /\ f[2].page = None /\ f[2].timestamp = None
    /\ \E f \in Filed(result) :
         f[2].text # "" /\ f[2].page = None /\ f[2].timestamp # None

\* The lines lines[a..b] of the code (0-based, both ends included).
LinesFromTo(a, b) == [n \in 1..(b - a + 1) |-> Line(a + n - 1)]

\* C15: for a record matched at i the body run starts at i+3, so line i+2
\* is never looked at and the text is made of lines i+3..j-1 only; when
\* the run ends at j the scan goes on at j+1, so no line of i+1..j is ever
\* the title line of a scan step or of a later record.
C15_GapSkippedResumeAfterRun ==
    /\ [][(pc = "scan" /\ pc' = "body")
            => (j' = i + 3 /\ i' = i /\ annotation_lines' = <<>>)]_vars
    /\ [][(pc = "body" /\ pc' = "scan") => i' = j + 1]_vars
    /\ [](pc = "body"
            => /\ j >= i + 3
               /\ annotation_lines
                    = OwnLines(LinesFromTo(i + 3, j - 1), title))
    /\ [](\A x \in 1..Len(records) :
            /\ records[x].stop >= records[x].start + 3
            /\ records[x].text
                 = join("\n", OwnLines(LinesFromTo(records[x].start + 3,
                                                   records[x].stop - 1),
                                       records[x].title))
            /\ i > records[x].stop
            /\ \A y \in 1..Len(records) :
                 x < y => records[y].start > records[x].stop)

\* A record whose line i+2 reads "Notiz" was emitted with its body line
\* alone as text, and a later record was matched after its run.
C15_Witness ==
    /\ pc = "done"
    /\ Len(records) = 2
    /\ Line(records[1].start + 2) = "Notiz"
    /\ records[1].emitted
    /\ records[1].text = "Focus is the new IQ."
    /\ \A f \in Filed(result) : f[2].text = "Focus is the new IQ."
    /\ records[2].start = records[1].stop + 2

\* C16: the parser comes to an end on every input, by returning when no
\* timestamp error is raised: at every pass of the outer loop i grows, by
\* exactly 1 when no record starts at i and by at least 4 when one does,
\* at every pass of the inner loop j grows by 1, and the outer loop is
\* entered at most len(lines) times.
C16_ScanTerminates ==
    /\ <>Ended
    /\ [](pc = "raised" => HasStampPart(strip(Line(i + 1))))
    /\ [][(pc = "scan" /\ pc' = "scan") => i' = i + 1]_vars
    /\ [][(pc = "scan" /\ pc' = "body") => (i' = i /\ j' = i + 3)]_vars
    /\ [][(pc = "body" /\ pc' = "body") => (j' = j + 1 /\ i' = i)]_vars
    /\ [][(pc = "body" /\ pc' = "scan") => i' >= i + 4]_vars
    /\ [][(pc \in {"scan", "body"}) => (i' >= i /\ lines' = lines)]_vars
    /\ [](pc # "start" => iterations <= Len(lines))
    /\ [](pc = "body" => j <= Len(lines))

\* An export of two records was parsed to the end in as many passes of
\* the outer loop as it has lines or fewer, some of them skipping a line.
C16_Witness ==
    /\ pc = "done"
    /\ Len(records) = 2
    /\ iterations > 2
    /\ iterations <= Len(lines)
    /\ i >= Len(lines) - 2

\* Whether a name is 8 digits followed by "_kindle_annotations_raw.txt".
IsDatedName(n) ==
    /\ Len(n) = 35
    /\ \A x \in 1..8 :
         SubSeq(n, x, x) \in {"0", "1", "2", "3", "4", "5", "6", "7", "8", "9"}
    /\ SubSeq(n, 9, 35) = "_kindle_annotations_raw.txt"

\* The date the first 8 characters of a name stand for.
DateOfName(n) == strptime(SubSeq(n, 1, 8))

\* The regular files of a directory that have such a name and whose 8
\* digits are a date.
Candidates(dir) ==
    {n \in DOMAIN dir :
        dir[n].kind = "file" /\ IsDatedName(n) /\ DateOfName(n).exc = ""}

\* A directory without the entries of the given names.
Without(dir, names) == [n \in DOMAIN dir \ names |-> dir[n]]

\* C13: select_and_cleanup_raw_files returns the file of the greatest
\* date among the regular files named "<8 digits>_kindle_annotations_raw.txt"
\* with a valid date; with delete_old the directory is then the one of the
\* call without those of these files that have an older date, every other
\* entry being untouched, and without delete_old it is unchanged.
C13_NewestKeptOlderDeleted ==
    s_pc = "returned" =>
        LET cands == Candidates(raw_dir0)
            r     == s_out.value
            older == {c \in cands :
                         DateLess(DateOfName(c).value, DateOfName(r).value)}
        IN  /\ r \in cands
            /\ \A c \in cands :
                 ~DateLess(DateOfName(r).value, DateOfName(c).value)
            /\ delete_old => raw_dir = Without(raw_dir0, older)
            /\ ~delete_old => raw_dir = raw_dir0

\* C14: when RAW_DIR holds no regular file named
\* "<8 digits>_kindle_annotations_raw.txt" with a valid date,
\* select_and_cleanup_raw_files ends by raising FileNotFoundError and
\* deletes nothing, and it raises in no other case: a file so named that
\* is empty is selected, parsed to the empty mapping and dumped.
C14_NoDatedFileRaises ==
    /\ (s_pc \in {"returned", "raised"} /\ Candidates(raw_dir0) = {})
          => /\ s_pc = "raised"
             /\ s_out.exc = "FileNotFoundError"
             /\ raw_dir = raw_dir0
    /\ s_pc = "raised" => Candidates(raw_dir0) = {}
    /\ (m_pc = "done" /\ raw_dir0[s_out.value].text = "")
          => /\ s_out.value \in Candidates(raw_dir0)
             /\ result = <<>>
             /\ clean_dir[SubSeq(s_out.value, 1, 8)
                            \o "_kindle_annotations_clean.json"] = <<>>

\* The properly named dated files of RAW_DIR at the call that are older
\* than the file selected.
OlderRawFiles ==
    {c \in Candidates(raw_dir0) :
        DateLess(DateOfName(c).value, DateOfName(s_out.value).value)}

\* C17: in main the older raw files are gone before the file selected is
\* read, and RAW_DIR does not change from then on; CLEAN_DIR changes
\* only in the step that follows a parse that returned, so when the
\* parser raises no clean file is created or modified although the older
\* raw files are gone; when main ends normally exactly the file named by
\* the first 8 characters of the name of the file selected has been
\* written, with the mapping returned.
C17_DeleteParseWrite ==
    /\ [](m_pc \in {"parse", "done"} \/ (m_pc = "raised" /\ pc = "raised")
            => /\ s_pc = "returned"
               /\ DOMAIN raw_dir \cap OlderRawFiles = {}
               /\ s_out.value \in DOMAIN raw_dir
               /\ raw_dir[s_out.value] = raw_dir0[s_out.value])
    /\ [][(m_pc \in {"parse", "done", "raised"}) => raw_dir' = raw_dir]_vars
    /\ [][clean_dir' # clean_dir
            => (m_pc = "parse" /\ pc = "done" /\ m_pc' = "done")]_vars
    /\ [](m_pc # "done" => clean_dir = clean_dir0)
    /\ [](m_pc = "done"
            => LET name == SubSeq(s_out.value, 1, 8)
                             \o "_kindle_annotations_clean.json"
               IN  /\ pc = "done"
                   /\ DOMAIN clean_dir = DOMAIN clean_dir0 \cup {name}
                   /\ clean_dir[name] = result
                   /\ SubSeq(name, 1, 8) = SubSeq(s_out.value, 1, 8)
                   /\ \A n \in DOMAIN clean_dir0 :
                        n # name => clean_dir[n] = clean_dir0[n])

\* main has ended with the error of the parser: an older raw file is
\* gone, and the clean file of the earlier run is as it was.
C17_Witness ==
    /\ m_pc = "raised"
    /\ pc = "raised"
    /\ exc = "KeyError"
    /\ OlderRawFiles # {}
    /\ DOMAIN raw_dir = DOMAIN raw_dir0 \ OlderRawFiles
    /\ clean_dir0 # EmptyDir
    /\ clean_dir = clean_dir0

\* The requests that were answered without error.
Answered ==
    IF b_pc = "raised" THEN SubSeq(requests, 1, Len(requests) - 1)
    ELSE requests

\* C18: append_blocks sends the blocks in consecutive batches of at most
\* 100 in their order, each block in one batch: every batch but the last
\* holds 100 blocks, none is empty, the batches sent are together a prefix
\* of the blocks, and on return they are all the blocks, in ceil(n/100)
\* requests. When a request fails the function raises at once and sends
\* nothing more, and the batches answered before stay appended.
C18_BatchesOfHundred ==
    /\ [](/\ \A n \in 1..Len(requests) :
               /\ Len(requests[n]) >= 1
               /\ Len(requests[n]) <= 100
               /\ n < Len(requests) => Len(requests[n]) = 100
           /\ Len(Flatten(requests)) <= Len(blocks)
           /\ Flatten(requests) = SubSeq(blocks, 1, Len(Flatten(requests)))
           /\ children \in {Flatten(Answered), Flatten(requests)})
    /\ [](b_pc = "done"
            => /\ Flatten(requests) = blocks
               /\ children = blocks
               /\ Len(requests) = (Len(blocks) + 99) \div 100)
    /\ [][b_pc = "loop" /\ b_pc' = "raised"
            => Len(requests') = Len(requests) + 1]_vars
    /\ [][b_pc = "raised" => (requests' = requests /\ children' = children)]_vars

\* The third request of a page of more than 200 blocks failed: the
\* function raised with the first 200 blocks appended and the others not.
C18_Witness ==
    /\ b_pc = "raised"
    /\ Len(blocks) > 200
    /\ Len(requests) = 3
    /\ children = SubSeq(blocks, 1, 200)

====
